---- MODULE Spec2Model ----
(***************************************************************************)
(* Model of the duplicate-detection engine of audio_duplicate_finder.py:   *)
(* audio_fingerprint, find_duplicates and download_audio_files.            *)
(*                                                                         *)
(* File contents are byte strings (sequences of byte values).  The chunk   *)
(* sizes of audio_fingerprint are scaled down (64 KiB -> ChunkSize bytes,  *)
(* 128 KiB -> TailThreshold bytes), keeping TailThreshold = 2 * ChunkSize  *)
(* as in the source.  SHA-256 is modelled as an injective function of the  *)
(* byte string it is fed.                                                  *)
(*                                                                         *)
(* Every system call that the source wraps in try/except is an input of    *)
(* the environment: it either succeeds or raises.                          *)
(***************************************************************************)
EXTENDS Integers, Sequences, FiniteSets, TLC

VARIABLES
    \* ---- audio_fingerprint called directly ----
    fpFiles,              \* path -> content of the file at that path
    fpCalls,              \* the calls made so far: [path, cond, ret]
    \* ---- find_duplicates ----
    lib,                  \* path -> content, or NoFile
    folder1, folder2,     \* the two roots
    scanPc,               \* "idle" | "walk" | "returned"
    walkPos,              \* position in the traversal
    fingerprints,         \* dict: digest -> path
    duplicates,           \* list of (original, duplicate)
    processed_count,
    scanMsgs,             \* msg_queue of the scan
    visits,               \* per visited audio file: [path, cond, ret]
    \* ---- download_audio_files ----
    links,                \* audio_links: sequence of [text, ext, body]
    existing_folder,      \* "" (not given) or the folder name
    exFiles,              \* path -> content, or NoFile, under existing_folder
    disk,                 \* download folder: path -> content, or NoFile
    pc,                   \* position of the worker in download_audio_files
    exPos,                \* position in the walk of existing_folder
    i,                    \* loop index (1-based)
    existing_fingerprints,\* dict: digest -> path
    successful_downloads,
    skipped_duplicates,
    temp_filename,        \* Unbound until line 163 first runs
    file_response,        \* content of the response that passed the checks
    msgs,                 \* msg_queue of the session
    result,               \* NoResult, or the returned triple
    \* ---- history of the session (not read by the program) ----
    outcome,              \* candidate -> outcome, or "none"
    fetched,              \* candidates for which requests.get was called
    received,             \* candidate -> bytes of a response that passed the checks
    badResp,              \* candidates whose response failed an integrity check
    existedAtTurn,        \* candidates whose destination existed at line 137
    wroteTmp,             \* candidates whose provisional file was written
    fileOwner,            \* path -> candidate that created the file there (0: none)
    startDigests,         \* digests in the index when the candidate loop starts
    indexLog,             \* the assignments index[fp] = path made, in order
    rmFailed,             \* paths whose os.remove in the handler of line 192 raised
    dupRemoved,           \* candidates whose provisional file line 172 deleted
    \* ---- the progress channel: session queues, their pollers, the output ----
    worker,               \* session -> "none" | "running" | "returned"
    msg_queue,            \* session -> events put and not yet taken
    poller,               \* session -> "none" | "waiting" | "draining"
    text_output,          \* the lines appended to the output widget
    emitted,              \* session -> events the worker has put (history)
    \* ---- download button, status line and terminal callbacks ----
    download_button,      \* state of the 'Download Audio Files' button
    status_label,         \* text of the status line
    terminal,             \* session -> its root.after(0, ...) callback
    \* ---- the duplicate finder tab ----
    tree,                 \* rows of the result view, top to bottom
    onDisk,               \* the files named in the rows that exist
    check_button,         \* state of the 'Check Duplicates' button
    checkRuns,            \* run_check calls that passed the validation
    checkThreads,         \* worker threads run_check started
    callbackError,        \* handlers that raised inside the Tk callback
    deleted,              \* paths delete_file removed from disk (history)
    \* ---- successive sessions ----
    scanRun,              \* number of find_duplicates calls started
    dlRun,                \* number of download_audio_files calls started
    \* ---- the player ----
    current_playlist,     \* the tracks, in playlist order
    current_track_index,  \* index of the current track, from 0; -1: none
    is_playing,
    is_paused,
    shuffle_mode,
    repeat_mode,
    progress_update_id,   \* id of the last update_progress timer; 0: None
    afterTimers,          \* ids of the update_progress timers that are pending
    mixer,                \* pygame.mixer.music: "idle" | "playing" | "paused"
    started,              \* the file the mixer last started to play (history)
    lastStep              \* <<handler of the last step, file it loaded>> (history)

fpVars   == <<fpFiles, fpCalls>>
scanVars == <<lib, folder1, folder2, scanPc, walkPos, fingerprints, duplicates,
              processed_count, scanMsgs, visits>>
dlVars   == <<links, existing_folder, exFiles, disk, pc, exPos, i,
              existing_fingerprints, successful_downloads, skipped_duplicates,
              temp_filename, file_response, msgs, result>>
histVars == <<outcome, fetched, received, badResp, existedAtTurn, wroteTmp,
              fileOwner, startDigests, indexLog, rmFailed,
              dupRemoved>>
chanVars == <<worker, msg_queue, poller, text_output, emitted>>
uiVars   == <<download_button, status_label, terminal>>
viewVars == <<tree, onDisk, check_button, checkRuns, checkThreads,
              callbackError, deleted>>
sessVars == <<scanRun, dlRun>>
playerVars == <<current_playlist, current_track_index, is_playing, is_paused,
                shuffle_mode, repeat_mode, progress_update_id, afterTimers,
                mixer, started, lastStep>>
vars     == <<fpVars, scanVars, dlVars, histVars, chanVars, uiVars, viewVars,
              sessVars, playerVars>>

\* What the steps of one operation leave alone
notFpVars   == <<scanVars, dlVars, histVars, chanVars, uiVars, viewVars, sessVars,
                playerVars>>
notScanVars == <<fpVars, dlVars, histVars, chanVars, uiVars, viewVars, sessVars,
                playerVars>>
notDlVars   == <<fpVars, scanVars, chanVars, uiVars, viewVars, sessVars,
                playerVars>>
notChanVars == <<fpVars, scanVars, dlVars, histVars, viewVars, sessVars,
                playerVars>>
notViewVars == <<fpVars, scanVars, dlVars, histVars, chanVars, sessVars,
                playerVars>>
notPlayerVars == <<fpVars, scanVars, dlVars, histVars, chanVars, uiVars,
                   viewVars, sessVars>>

----------------------------------------------------------------------------
(* Bounds of the model *)

MaxCalls == 2
MaxLinks == 2
MaxEvents == 2
MaxSessions == 2

(* Scaled program constants *)
ChunkSize == 1
TailThreshold == 2

(* Values that stand for "nothing" *)
NoFile   == <<-1>>
Unbound  == <<"unbound">>
NoResult == <<-1, -1, -1>>
Raised   == <<"raise", <<>>>>

----------------------------------------------------------------------------
(* Byte strings *)

Min(a, b) == IF a < b THEN a ELSE b

\* bytes.read(n) from the start of the file
FirstBytes(content, n) == SubSeq(content, 1, Min(n, Len(content)))

\* f.seek(-n, 2); f.read(n)
LastBytes(content, n) == SubSeq(content, Len(content) - n + 1, Len(content))

\* str(n).encode(): the ASCII decimal digits of n
RECURSIVE Decimal(_)
Decimal(n) == IF n < 10 THEN <<48 + n>>
              ELSE Decimal(n \div 10) \o <<48 + (n % 10)>>

\* hashlib.sha256(b).hexdigest(), injective on b
Sha256(b) == <<"sha256", b>>

\* How a file answers the system calls of one audio_fingerprint call:
\*   "ok"         getsize, open, seek and read succeed
\*   "unreadable" getsize succeeds, but open, seek or read raises
\*   "nostat"     getsize raises (in the body and again in the handler)
Conds == {"ok", "unreadable", "nostat"}

\* The byte string hashed when the last chunk is also read from a file of
\* exactly TailThreshold bytes
HashedBytes_TailAtThreshold(content) ==
    LET file_size   == Len(content)
        first_chunk == FirstBytes(content, ChunkSize)
        last_chunk  == IF file_size >= TailThreshold
                       THEN LastBytes(content, ChunkSize)
                       ELSE <<>>
    IN  Decimal(file_size) \o first_chunk \o last_chunk

\* The byte string hashed on the normal path (lines 56-77)
HashedBytes(content) ==
    LET file_size   == Len(content)
        first_chunk == FirstBytes(content, ChunkSize)
        last_chunk  == IF file_size > TailThreshold
                       THEN LastBytes(content, ChunkSize)
                       ELSE <<>>
    IN  Decimal(file_size) \o first_chunk \o last_chunk

\* audio_fingerprint(path) for a file with this content under this condition
audio_fingerprint(content, cond) ==
    CASE cond = "ok"         -> Sha256(HashedBytes(content))
      [] cond = "unreadable" -> Sha256(Decimal(Len(content)))
      [] OTHER               -> Raised

----------------------------------------------------------------------------
(* Dictionaries (Python dict) *)

EmptyDict == << >>

\* d[k] = v
DictSet(d, k, v) == [x \in DOMAIN d \cup {k} |-> IF x = k THEN v ELSE d[x]]

\* k in d
DictHas(d, k) == k \in DOMAIN d

\* The content universe of the model: an empty file, files no longer than
\* one chunk (one of them the digit '0'), a file between one and two chunks,
\* files longer than TailThreshold that differ only in a middle byte, and a
\* file whose size has two decimal digits.
Contents == { <<>>, <<97>>, <<48>>, <<98, 97>>, <<97, 48, 98>>, <<97, 49, 98>>,
              <<97, 97, 97, 97, 97, 97, 97, 97, 97, 98>> }

----------------------------------------------------------------------------
(* Values of the variables of an operation that is not running *)

IdleFp ==
    /\ fpFiles = << >>
    /\ fpCalls = << >>

IdleScan ==
    /\ lib = << >>
    /\ folder1 = ""
    /\ folder2 = ""
    /\ scanPc = "idle"
    /\ walkPos = 0
    /\ fingerprints = EmptyDict
    /\ duplicates = << >>
    /\ processed_count = 0
    /\ scanMsgs = << >>
    /\ visits = << >>

IdleDl ==
    /\ links = << >>
    /\ existing_folder = ""
    /\ exFiles = << >>
    /\ disk = << >>
    /\ pc = "idle"
    /\ exPos = 0
    /\ i = 0
    /\ existing_fingerprints = EmptyDict
    /\ successful_downloads = 0
    /\ skipped_duplicates = 0
    /\ temp_filename = Unbound
    /\ file_response = NoFile
    /\ msgs = << >>
    /\ result = NoResult
    /\ outcome = << >>
    /\ fetched = {}
    /\ received = << >>
    /\ badResp = {}
    /\ existedAtTurn = {}
    /\ wroteTmp = {}
    /\ fileOwner = << >>
    /\ startDigests = {}
    /\ indexLog = << >>
    /\ rmFailed = {}
    /\ dupRemoved = {}

IdleChan ==
    /\ worker = << >>
    /\ msg_queue = << >>
    /\ poller = << >>
    /\ text_output = << >>
    /\ emitted = << >>
    /\ download_button = "normal"
    /\ status_label = <<"", 0>>
    /\ terminal = << >>

\* The player as the module is loaded                        (lines 916-927)
IdlePlayer ==
    /\ current_playlist = << >>
    /\ current_track_index = -1
    /\ is_playing = FALSE
    /\ is_paused = FALSE
    /\ shuffle_mode = FALSE
    /\ repeat_mode = FALSE
    /\ progress_update_id = 0
    /\ afterTimers = {}
    /\ mixer = "idle"
    /\ started = "none"
    /\ lastStep = <<"none", "none">>

\* The duplicate finder tab as the main window is built   (lines 1509-1538)
IdleView ==
    /\ tree = << >>
    /\ onDisk = {}
    /\ check_button = "normal"
    /\ checkRuns = 0
    /\ checkThreads = 0
    /\ callbackError = {}
    /\ deleted = {}

\* A single call of the operation, with none following it
IdleSess ==
    /\ scanRun = 0
    /\ dlRun = 0

----------------------------------------------------------------------------
(* audio_fingerprint called on files of a small file system *)

FpPaths == {"a/x.mp3", "b/y.wav"}

InitFP ==
    /\ fpFiles \in [FpPaths -> Contents]
    /\ fpCalls = << >>
    /\ IdleScan
    /\ IdleDl
    /\ IdleChan
    /\ IdleSess
    /\ IdleView
    /\ IdlePlayer

\* One call audio_fingerprint(path); the file is not modified
FpCall ==
    /\ Len(fpCalls) < MaxCalls
    /\ \E path \in FpPaths, cond \in Conds :
         fpCalls' = Append(fpCalls,
                           [path |-> path, cond |-> cond,
                            ret |-> audio_fingerprint(fpFiles[path], cond)])
    /\ UNCHANGED <<fpFiles, notFpVars>>

NextFP == FpCall

SpecFP == InitFP /\ [][NextFP]_vars

----------------------------------------------------------------------------
(* find_duplicates(folder1, folder2, msg_queue) *)

\* The files that may exist, in the order os.walk lists them: a directory's
\* own files first, then its subdirectories, top-down.
LibOrder ==
    << [dir |-> "A",     name |-> "a",     ext |-> ".mp3"],
       [dir |-> "A/sub", name |-> "b",     ext |-> ".MP3"],
       [dir |-> "B",     name |-> "c",     ext |-> ".flac"],
       [dir |-> "B",     name |-> "notes", ext |-> ".txt"] >>

LibPaths == { LibOrder[k] : k \in DOMAIN LibOrder }

Folders == {"A", "A/sub", "B"}

\* d is root or a directory below it
InTree(d, root) == d = root \/ (root = "A" /\ d = "A/sub")

\* str.lower() on the extensions of the model
Lower(ext) == CASE ext = ".MP3" -> ".mp3"
                [] ext = ".WAV" -> ".wav"
                [] OTHER        -> ext

audio_extensions ==
    {".mp3", ".wav", ".flac", ".aac", ".ogg", ".m4a", ".wma", ".aiff"}

\* A filter that lets every file through
IsAudio_AnyFile(f) == TRUE

\* f.lower().endswith(audio_extensions)
IsAudio(f) == Lower(f.ext) \in audio_extensions

\* os.walk(root), flattened to the files it yields, over file system fs
\* whose possible files are listed by order
Walk(order, fs, root) ==
    SelectSeq(order, LAMBDA f : fs[f] # NoFile /\ InTree(f.dir, root))

\* for folder in [folder1, folder2]: for root, _, files in os.walk(folder)
Traversal == Walk(LibOrder, lib, folder1) \o Walk(LibOrder, lib, folder2)

\* Contents of the files of a scan
ScanContents == { <<>>, <<97>>, <<98, 97>> }

InitScan ==
    /\ lib \in [LibPaths -> ScanContents \cup {NoFile}]
    /\ lib[LibOrder[4]] \in {NoFile, <<97>>}
    /\ folder1 \in Folders
    /\ folder2 \in Folders
    /\ scanPc = "walk"
    /\ walkPos = 1
    /\ fingerprints = EmptyDict
    /\ duplicates = << >>
    /\ processed_count = 0
    /\ scanMsgs = << >>
    /\ visits = << >>
    /\ IdleFp
    /\ IdleDl
    /\ IdleChan
    /\ IdleSess
    /\ IdleView
    /\ IdlePlayer

\* An open that truncates the file, as mode 'wb' does
OpenedForReading_Truncating(fs, path) == [fs EXCEPT ![path] = << >>]

\* The file system after audio_fingerprint(path): the file is opened with
\* mode 'rb', sought and read, which leaves it as it is   (lines 59-67)
OpenedForReading(fs, path) == fs

\* A 'Skipped' event that does not name the file
SkippedEvent_Unnamed(full_path) ==
    <<"Skipped", [dir |-> "", name |-> "", ext |-> ""]>>

\* msg_queue.put(f"Skipped: {os.path.basename(full_path)} ...")  (line 225)
SkippedEvent(full_path) == <<"Skipped", full_path>>

\* The pair with its elements swapped
ScanPair_Swapped(index, fp, full_path) == <<full_path, index[fp]>>

\* duplicates.append((fingerprints[fp], full_path))      (line 222)
ScanPair(index, fp, full_path) == <<index[fp], full_path>>

\* One iteration of the innermost loop (lines 215-226)
ScanFile ==
    /\ scanPc = "walk"
    /\ walkPos <= Len(Traversal)
    /\ walkPos' = walkPos + 1
    /\ LET full_path == Traversal[walkPos] IN
       IF ~IsAudio(full_path)
       THEN UNCHANGED <<lib, fingerprints, duplicates, processed_count,
                        scanMsgs, visits>>
       ELSE \E cond \in Conds :
              LET fp == audio_fingerprint(lib[full_path], cond) IN
              /\ lib' = OpenedForReading(lib, full_path)
              /\ visits' = Append(visits, [path |-> full_path, cond |-> cond, ret |-> fp])
              /\ IF fp = Raised
                 THEN /\ scanMsgs' = Append(scanMsgs, SkippedEvent(full_path))
                      /\ UNCHANGED <<fingerprints, duplicates, processed_count>>
                 ELSE /\ processed_count' = processed_count + 1
                      /\ IF DictHas(fingerprints, fp)
                         THEN /\ duplicates' = Append(duplicates,
                                                      ScanPair(fingerprints, fp, full_path))
                              /\ UNCHANGED fingerprints
                         ELSE /\ fingerprints' = DictSet(fingerprints, fp, full_path)
                              /\ UNCHANGED duplicates
                      /\ UNCHANGED scanMsgs
    /\ UNCHANGED <<folder1, folder2, scanPc, notScanVars>>

\* return duplicates, processed_count                     (line 227)
ScanReturn ==
    /\ scanPc = "walk"
    /\ walkPos > Len(Traversal)
    /\ scanPc' = "returned"
    /\ UNCHANGED <<lib, folder1, folder2, walkPos, fingerprints, duplicates,
                   processed_count, scanMsgs, visits, notScanVars>>

NextScan == ScanFile \/ ScanReturn

SpecScan == InitScan /\ [][NextScan]_vars

----------------------------------------------------------------------------
(* download_audio_files(url, download_folder, existing_folder, msg_queue) *)

\* Contents served by the remote links and held by the existing folder
DlBodies == { <<97, 97>>, <<98, 97>> }

\* Link texts of the page
Texts == { <<"a">>, <<"/">> }

\* The candidates a page can hold: (link, text), the link giving the
\* extension and the bytes served
Candidates == [text : Texts, ext : {".mp3"}, body : DlBodies]

UnsafeChars == {"<", ">", ":", "\"", "/", "\\", "|", "?", "*"}

\* re.sub(r'[<>:"/\\|?*]', '_', text)                       (line 133)
Sanitize(text) ==
    [k \in DOMAIN text |-> IF text[k] \in UnsafeChars THEN "_" ELSE text[k]]

\* os.path.join(download_folder, safe_text + ext)            (line 134)
Filename(c) == Sanitize(c.text) \o <<c.ext>>

\* filename + ".tmp"                                         (line 163)
TempName(filename) == filename \o <<".tmp">>

DlPaths == { Filename(c) : c \in Candidates }
             \cup { TempName(Filename(c)) : c \in Candidates }

\* The files that may exist under existing_folder, in os.walk order
ExOrder ==
    << [dir |-> "E", name |-> "x", ext |-> ".mp3"],
       [dir |-> "E", name |-> "y", ext |-> ".WAV"] >>

ExPaths == { ExOrder[k] : k \in DOMAIN ExOrder }

ExWalk == Walk(ExOrder, exFiles, existing_folder)

\* os.path.join(root, f)                                     (line 97)
JoinPath(f) == <<f.dir, f.name \o f.ext>>

\* A response without a Content-Length header
NoHeader == -1

\* The responses requests.get(link) can return for a link serving body:
\* any status, no Content-Length header or one that declares the length of
\* body or more than that, and all of body or none of it received
Responses(body) ==
    [status : {200, 500},
     content_length : {NoHeader, Len(body), Len(body) + 1},
     content : {body, << >>}]

\* The integrity checks without the test for an empty body
IntegrityFailure_NoEmptyCheck(r) ==
    IF r.status # 200 THEN "Failed: HTTP"
    ELSE IF r.content_length # NoHeader /\ Len(r.content) # r.content_length
         THEN "Corrupted"
    ELSE "none"

\* The integrity checks of lines 146-160: which one rejects the response
IntegrityFailure(r) ==
    IF r.status # 200 THEN "Failed: HTTP"
    ELSE IF r.content_length # NoHeader /\ Len(r.content) # r.content_length
         THEN "Corrupted"
    ELSE IF Len(r.content) = 0 THEN "Empty file"
    ELSE "none"

\* History only: the response is one that the claims call a failed fetch
\* (status other than 200, fewer or more bytes than declared, no bytes)
BadResponse(r) ==
    \/ r.status # 200
    \/ (r.content_length # NoHeader /\ r.content_length # Len(r.content))
    \/ r.content = << >>

\* An exists check that never finds the file
DestinationExists_Never(d, filename) == FALSE

\* os.path.exists(filename)                                  (line 137)
DestinationExists(d, filename) == d[filename] # NoFile

\* file_fingerprint in existing_fingerprints                 (line 171)
IsKnownDuplicate(index, fp) == DictHas(index, fp)

InitDl ==
    /\ links \in UNION { [1..n -> Candidates] : n \in 0..MaxLinks }
    /\ existing_folder \in {"", "E"}
    /\ exFiles \in [ExPaths -> DlBodies \cup {NoFile}]
    /\ exFiles[ExOrder[2]] \in {NoFile, <<97, 97>>}
    /\ exFiles[ExOrder[2]] # NoFile => exFiles[ExOrder[1]] = <<97, 97>>
    /\ existing_folder = "" => \A f \in ExPaths : exFiles[f] = NoFile
    /\ disk \in [DlPaths -> DlBodies \cup {NoFile}]
    /\ \A q \in DlPaths : q # <<"a", ".mp3">> => disk[q] = NoFile
    /\ disk[<<"a", ".mp3">>] \in {NoFile, <<97, 97>>}
    /\ pc = "start"
    /\ exPos = 1
    /\ i = 1
    /\ existing_fingerprints = EmptyDict
    /\ successful_downloads = 0
    /\ skipped_duplicates = 0
    /\ temp_filename = Unbound
    /\ file_response = NoFile
    /\ msgs = << >>
    /\ result = NoResult
    /\ outcome = [k \in DOMAIN links |-> "none"]
    /\ fetched = {}
    /\ received = [k \in DOMAIN links |-> NoFile]
    /\ badResp = {}
    /\ existedAtTurn = {}
    /\ wroteTmp = {}
    /\ fileOwner = [q \in DlPaths |-> 0]
    /\ startDigests = {}
    /\ indexLog = << >>
    /\ rmFailed = {}
    /\ dupRemoved = {}
    /\ IdleFp
    /\ IdleScan
    /\ IdleChan
    /\ IdleSess
    /\ IdleView
    /\ IdlePlayer

\* An os.remove that returns without deleting the file
Removed_Kept(d, path) == d

\* os.remove(path) that succeeded
Removed(d, path) == [d EXCEPT ![path] = NoFile]

\* A handler that reports the number of links as the total
OuterExcept_TotalKept(m) ==
    /\ msgs' = Append(m, <<"Download error", 0>>)
    /\ result' = <<0, Len(links), 0>>
    /\ pc' = "done"

\* The handler of lines 203-205: the session ends with (0, 0, 0)
OuterExcept(m) ==
    /\ msgs' = Append(m, <<"Download error", 0>>)
    /\ result' = <<0, 0, 0>>
    /\ pc' = "done"

\* The handler of lines 192-198, entered with temp_filename = tmp, disk d
\* and file owners own; rmOk: os.remove succeeds.  When temp_filename was
\* never assigned, line 193 raises UnboundLocalError, which only the
\* handler of line 203 catches.
InnerExcept(tmp, d, own, rmOk, m) ==
    IF tmp = Unbound
    THEN /\ OuterExcept(m)
         /\ disk' = d
         /\ fileOwner' = own
         /\ outcome' = [outcome EXCEPT ![i] = "Aborted"]
         /\ i' = i
         /\ rmFailed' = rmFailed
         /\ dupRemoved' = dupRemoved
    ELSE /\ IF d[tmp] # NoFile /\ rmOk
            THEN /\ disk' = Removed(d, tmp)
                 /\ fileOwner' = [own EXCEPT ![tmp] = 0]
            ELSE /\ disk' = d
                 /\ fileOwner' = own
         /\ rmFailed' = IF d[tmp] # NoFile /\ ~rmOk
                         THEN rmFailed \cup {tmp} ELSE rmFailed
         /\ dupRemoved' = dupRemoved
         /\ msgs' = Append(m, <<"Error downloading", i>>)
         /\ outcome' = [outcome EXCEPT ![i] = "FailedTransfer"]
         /\ i' = i + 1
         /\ pc' = "loop"
         /\ result' = result

\* os.makedirs(download_folder, exist_ok=True)               (lines 84-92)
DlMakeDirs ==
    /\ pc = "start"
    /\ \E ok \in BOOLEAN :
         IF ok
         THEN /\ IF existing_folder # ""
                 THEN /\ msgs' = msgs \o << <<"Created download folder", 0>>,
                                            <<"Scanning existing files", 0>> >>
                      /\ pc' = "prescan"
                 ELSE /\ msgs' = Append(msgs, <<"Created download folder", 0>>)
                      /\ pc' = "page"
              /\ UNCHANGED result
         ELSE OuterExcept(msgs)
    /\ UNCHANGED <<links, existing_folder, exFiles, disk, exPos, i,
                   existing_fingerprints, successful_downloads,
                   skipped_duplicates, temp_filename, file_response,
                   histVars, notDlVars>>

\* One file of the walk of existing_folder                   (lines 95-103)
DlPreScanFile ==
    /\ pc = "prescan"
    /\ exPos <= Len(ExWalk)
    /\ exPos' = exPos + 1
    /\ LET f         == ExWalk[exPos]
           full_path == JoinPath(f)
       IN
       IF ~IsAudio(f)
       THEN UNCHANGED <<existing_fingerprints, msgs, indexLog>>
       ELSE \E cond \in Conds :
              LET fp == audio_fingerprint(exFiles[f], cond) IN
              IF fp = Raised
              THEN /\ msgs' = Append(msgs, <<"Couldn't fingerprint", f.name \o f.ext>>)
                   /\ UNCHANGED <<existing_fingerprints, indexLog>>
              ELSE /\ existing_fingerprints' =
                          DictSet(existing_fingerprints, fp, full_path)
                   /\ indexLog' = Append(indexLog, <<fp, full_path>>)
                   /\ UNCHANGED msgs
    /\ UNCHANGED <<links, existing_folder, exFiles, disk, pc, i,
                   successful_downloads, skipped_duplicates, temp_filename,
                   file_response, result, outcome, fetched, received, badResp,
                   existedAtTurn, wroteTmp, fileOwner, startDigests,
                   rmFailed, dupRemoved, notDlVars>>

\* End of the walk                                           (line 105)
DlPreScanDone ==
    /\ pc = "prescan"
    /\ exPos > Len(ExWalk)
    /\ msgs' = Append(msgs, <<"Found existing audio files",
                              Cardinality(DOMAIN existing_fingerprints)>>)
    /\ pc' = "page"
    /\ UNCHANGED <<links, existing_folder, exFiles, disk, exPos, i,
                   existing_fingerprints, successful_downloads,
                   skipped_duplicates, temp_filename, file_response, result,
                   histVars, notDlVars>>

\* Fetch and parse the page; links holds what the parse finds (lines 108-126)
DlFetchPage ==
    /\ pc = "page"
    /\ \E ok \in BOOLEAN :
         IF ok
         THEN /\ msgs' = msgs \o << <<"Fetching page", 0>>,
                                    <<"Found audio files", Len(links)>> >>
              /\ pc' = "loop"
              /\ UNCHANGED result
         ELSE OuterExcept(Append(msgs, <<"Fetching page", 0>>))
    /\ startDigests' = DOMAIN existing_fingerprints
    /\ UNCHANGED <<links, existing_folder, exFiles, disk, exPos, i,
                   existing_fingerprints, successful_downloads,
                   skipped_duplicates, temp_filename, file_response,
                   outcome, fetched, received, badResp, existedAtTurn,
                   wroteTmp, fileOwner, indexLog, rmFailed, dupRemoved,
                   notDlVars>>

\* Head of the loop body: the destination name and the exists check
\* (lines 128-139)
DlLoopHead ==
    /\ pc = "loop"
    /\ i <= Len(links)
    /\ LET filename == Filename(links[i]) IN
       /\ existedAtTurn' = IF disk[filename] # NoFile
                            THEN existedAtTurn \cup {i} ELSE existedAtTurn
       /\ IF DestinationExists(disk, filename)
          THEN /\ msgs' = msgs \o << <<"Processing", i>>, <<"File already exists", i>> >>
               /\ outcome' = [outcome EXCEPT ![i] = "SkippedExisting"]
               /\ i' = i + 1
               /\ UNCHANGED pc
          ELSE /\ msgs' = Append(msgs, <<"Processing", i>>)
               /\ pc' = "fetch"
               /\ UNCHANGED <<outcome, i>>
    /\ UNCHANGED <<links, existing_folder, exFiles, disk, exPos,
                   existing_fingerprints, successful_downloads,
                   skipped_duplicates, temp_filename, file_response, result,
                   fetched, received, badResp, wroteTmp, fileOwner,
                   startDigests, indexLog,
                   rmFailed, dupRemoved, notDlVars>>

\* requests.get(link) and the integrity checks              (lines 143-160)
DlFetch ==
    /\ pc = "fetch"
    /\ fetched' = fetched \cup {i}
    /\ \/ \* requests.get raises
          /\ \E rmOk \in BOOLEAN :
                InnerExcept(temp_filename, disk, fileOwner, rmOk, msgs)
          /\ UNCHANGED <<file_response, received, badResp>>
       \/ \E r \in Responses(links[i].body) :
            /\ badResp' = IF BadResponse(r) THEN badResp \cup {i} ELSE badResp
            /\ IF IntegrityFailure(r) # "none"
               THEN /\ msgs' = Append(msgs, <<IntegrityFailure(r), i>>)
                    /\ outcome' = [outcome EXCEPT ![i] = "FailedIntegrity"]
                    /\ i' = i + 1
                    /\ pc' = "loop"
                    /\ UNCHANGED <<file_response, received, disk, fileOwner,
                                   result, rmFailed, dupRemoved>>
               ELSE /\ file_response' = r.content
                    /\ received' = [received EXCEPT ![i] = r.content]
                    /\ pc' = "write"
                    /\ UNCHANGED <<msgs, outcome, i, disk, fileOwner, result,
                                   rmFailed, dupRemoved>>
    /\ UNCHANGED <<links, existing_folder, exFiles, exPos,
                   existing_fingerprints, successful_downloads,
                   skipped_duplicates, temp_filename, existedAtTurn,
                   wroteTmp, startDigests, indexLog,
                   notDlVars>>

\* Save the bytes to the provisional file                   (lines 163-165)
DlWrite ==
    /\ pc = "write"
    /\ LET tmp == TempName(Filename(links[i])) IN
       /\ temp_filename' = tmp
       /\ \/ \* open and write succeed
             /\ disk' = [disk EXCEPT ![tmp] = file_response]
             /\ fileOwner' = [fileOwner EXCEPT ![tmp] = i]
             /\ wroteTmp' = wroteTmp \cup {i}
             /\ pc' = "dupcheck"
             /\ UNCHANGED <<msgs, outcome, i, result, rmFailed, dupRemoved>>
          \/ \* open raises: no file is created
             /\ \E rmOk \in BOOLEAN :
                   InnerExcept(tmp, disk, fileOwner, rmOk, msgs)
             /\ UNCHANGED wroteTmp
          \/ \* write raises after open created the file: it is left empty
             /\ \E rmOk \in BOOLEAN :
                   InnerExcept(tmp, [disk EXCEPT ![tmp] = << >>],
                               [fileOwner EXCEPT ![tmp] = i], rmOk, msgs)
             /\ UNCHANGED wroteTmp
    /\ UNCHANGED <<links, existing_folder, exFiles, exPos,
                   existing_fingerprints, successful_downloads,
                   skipped_duplicates, file_response, fetched, received,
                   badResp, existedAtTurn, startDigests, indexLog,
                   notDlVars>>

\* The duplicate check                                      (lines 168-178)
DlDupCheck ==
    /\ pc = "dupcheck"
    /\ IF existing_fingerprints # EmptyDict
       THEN \E cond \in Conds, rmOk \in BOOLEAN :
              LET file_fingerprint == audio_fingerprint(disk[temp_filename], cond) IN
              IF file_fingerprint = Raised
              THEN \* line 170 raises: handled at line 177, then line 181
                   /\ msgs' = Append(msgs, <<"Error checking duplicate", i>>)
                   /\ pc' = "rename"
                   /\ UNCHANGED <<disk, fileOwner, skipped_duplicates, outcome, i>>
              ELSE IF IsKnownDuplicate(existing_fingerprints, file_fingerprint)
              THEN IF rmOk
                   THEN /\ disk' = Removed(disk, temp_filename)
                        /\ fileOwner' = [fileOwner EXCEPT ![temp_filename] = 0]
                        /\ msgs' = Append(msgs, <<"Duplicate found", i,
                                                  existing_fingerprints[file_fingerprint]>>)
                        /\ skipped_duplicates' = skipped_duplicates + 1
                        /\ outcome' = [outcome EXCEPT ![i] = "SkippedDuplicate"]
                        /\ i' = i + 1
                        /\ pc' = "loop"
                   ELSE \* os.remove raises: handled at line 177, then line 181
                        /\ msgs' = Append(msgs, <<"Error checking duplicate", i>>)
                        /\ pc' = "rename"
                        /\ UNCHANGED <<disk, fileOwner, skipped_duplicates, outcome, i>>
              ELSE /\ pc' = "rename"
                   /\ UNCHANGED <<disk, fileOwner, msgs, skipped_duplicates, outcome, i>>
       ELSE /\ pc' = "rename"
            /\ UNCHANGED <<disk, fileOwner, msgs, skipped_duplicates, outcome, i>>
    /\ dupRemoved' = IF disk[temp_filename] # NoFile /\ disk'[temp_filename] = NoFile
                     THEN dupRemoved \cup {i} ELSE dupRemoved
    /\ UNCHANGED <<links, existing_folder, exFiles, exPos,
                   existing_fingerprints, successful_downloads, temp_filename,
                   file_response, result, fetched, received, badResp,
                   existedAtTurn, wroteTmp, startDigests, indexLog,
                   rmFailed, notDlVars>>

\* A rename that creates no file
Renamed_Nothing(d, src, dst) == d

\* os.rename(src, dst)                                              (line 181)
Renamed(d, src, dst) == [d EXCEPT ![dst] = d[src], ![src] = NoFile]

\* Commit the provisional file                              (lines 181-183)
DlRename ==
    /\ pc = "rename"
    /\ LET filename == Filename(links[i]) IN
       \/ \* os.rename succeeds
          /\ disk' = Renamed(disk, temp_filename, filename)
          /\ fileOwner' = [fileOwner EXCEPT ![filename] = i,
                                            ![temp_filename] = 0]
          /\ successful_downloads' = successful_downloads + 1
          /\ msgs' = Append(msgs, <<"Downloaded", i>>)
          /\ outcome' = [outcome EXCEPT ![i] = "Downloaded"]
          /\ pc' = "index"
          /\ UNCHANGED <<i, result, rmFailed, dupRemoved>>
       \/ \* os.rename raises
          /\ \E rmOk \in BOOLEAN :
                InnerExcept(temp_filename, disk, fileOwner, rmOk, msgs)
          /\ UNCHANGED successful_downloads
    /\ UNCHANGED <<links, existing_folder, exFiles, exPos,
                   existing_fingerprints, skipped_duplicates, temp_filename,
                   file_response, fetched, received, badResp, existedAtTurn,
                   wroteTmp, startDigests, indexLog,
                   notDlVars>>

\* Add the committed file to the index                      (lines 186-190)
DlIndex ==
    /\ pc = "index"
    /\ LET filename == Filename(links[i]) IN
       \E cond \in Conds :
         LET file_fingerprint == audio_fingerprint(disk[filename], cond) IN
         IF file_fingerprint = Raised
         THEN UNCHANGED <<existing_fingerprints, indexLog>>
         ELSE /\ existing_fingerprints' =
                     DictSet(existing_fingerprints, file_fingerprint, filename)
              /\ indexLog' = Append(indexLog, <<file_fingerprint, filename>>)
    /\ i' = i + 1
    /\ pc' = "loop"
    /\ UNCHANGED <<links, existing_folder, exFiles, disk, exPos,
                   successful_downloads, skipped_duplicates, temp_filename,
                   file_response, msgs, result, outcome, fetched, received,
                   badResp, existedAtTurn, wroteTmp, fileOwner, startDigests,
                   rmFailed, dupRemoved, notDlVars>>

\* The summary and the return                               (lines 200-201)
DlFinish ==
    /\ pc = "loop"
    /\ i > Len(links)
    /\ msgs' = Append(msgs, <<"Download complete", successful_downloads,
                              skipped_duplicates>>)
    /\ result' = <<successful_downloads, Len(links), skipped_duplicates>>
    /\ pc' = "done"
    /\ UNCHANGED <<links, existing_folder, exFiles, disk, exPos, i,
                   existing_fingerprints, successful_downloads,
                   skipped_duplicates, temp_filename, file_response,
                   histVars, notDlVars>>

NextDl ==
    \/ DlMakeDirs
    \/ DlPreScanFile
    \/ DlPreScanDone
    \/ DlFetchPage
    \/ DlLoopHead
    \/ DlFetch
    \/ DlWrite
    \/ DlDupCheck
    \/ DlRename
    \/ DlIndex
    \/ DlFinish

SpecDl == InitDl /\ [][NextDl]_vars

\* The worker thread is scheduled until download_audio_files returns; every
\* call it makes returns or raises (requests.get has timeout=30)
SpecDlFair == SpecDl /\ WF_vars(NextDl)

----------------------------------------------------------------------------
(* The progress channel: run_download / run_check, their workers, and       *)
(* check_queue polling each session's queue from the UI thread              *)

\* The sessions run_download opens, numbered in the order of the calls
Sessions == 1..MaxSessions

\* A queue that holds one event at most
PutBlocks_Capacity1(q) == Len(q) >= 1

\* msg_queue.put(e) has to wait for a free slot: never, queue.Queue() is
\* created without maxsize                                   (lines 312, 352)
PutBlocks(q) == FALSE

\* A download button left enabled while the worker runs
StateWhileRunning_Normal == "normal"

\* download_button.config(state='disabled')                       (line 309)
StateWhileRunning == "disabled"

\* The UI thread runs one callback at a time: no check_queue is running
UiIdle == \A t \in Sessions : poller[t] # "draining"

InitChan ==
    /\ worker = [s \in Sessions |-> "none"]
    /\ msg_queue = [s \in Sessions |-> << >>]
    /\ poller = [s \in Sessions |-> "none"]
    /\ text_output = << >>
    /\ emitted = [s \in Sessions |-> << >>]
    /\ download_button = "normal"
    /\ status_label = <<"", 0>>
    /\ terminal = [s \in Sessions |-> "none"]
    /\ IdleFp
    /\ IdleScan
    /\ IdleDl
    /\ IdleSess
    /\ IdleView
    /\ IdlePlayer

\* A click on the download button, which a disabled button ignores:
\* run_download.  valid: the URL and the download folder are given.  A new
\* queue, a first check_queue on it (it is empty, so the poll is only
\* scheduled), then the worker thread starts              (lines 296-319)
run_download ==
    /\ download_button = "normal"
    /\ UiIdle
    /\ \E valid \in BOOLEAN :
         IF ~valid
         THEN UNCHANGED <<chanVars, uiVars>>
         ELSE /\ \E s \in Sessions : worker[s] = "none"
              /\ LET s == CHOOSE s \in Sessions :
                              /\ worker[s] = "none"
                              /\ \A t \in Sessions : worker[t] = "none" => s <= t
                 IN /\ download_button' = StateWhileRunning
                    /\ status_label' = <<"Downloading...", 0>>
                    /\ worker' = [worker EXCEPT ![s] = "running"]
                    /\ poller' = [poller EXCEPT ![s] = "waiting"]
              /\ UNCHANGED <<msg_queue, text_output, emitted, terminal>>
    /\ UNCHANGED notChanVars

\* The worker puts its next event: msg_queue.put(...)
WorkerPut(s) ==
    /\ worker[s] = "running"
    /\ Len(emitted[s]) < MaxEvents
    /\ ~PutBlocks(msg_queue[s])
    /\ LET e == <<s, Len(emitted[s]) + 1>> IN
       /\ msg_queue' = [msg_queue EXCEPT ![s] = Append(@, e)]
       /\ emitted' = [emitted EXCEPT ![s] = Append(@, e)]
    /\ UNCHANGED <<worker, poller, text_output, uiVars, notChanVars>>

\* download_audio_files returned: the worker hands download_complete to
\* the UI thread with root.after(0, ...) and ends          (lines 316-317)
WorkerReturn(s) ==
    /\ worker[s] = "running"
    /\ worker' = [worker EXCEPT ![s] = "returned"]
    /\ terminal' = [terminal EXCEPT ![s] = "posted"]
    /\ UNCHANGED <<msg_queue, poller, text_output, emitted, download_button,
                   status_label, notChanVars>>

\* The UI thread runs the callback of root.after(0, ...)    (lines 321-323)
download_complete(s) ==
    /\ terminal[s] = "posted"
    /\ UiIdle
    /\ terminal' = [terminal EXCEPT ![s] = "handled"]
    /\ download_button' = "normal"
    /\ status_label' = <<"Download complete", s>>
    /\ UNCHANGED <<chanVars, notChanVars>>

\* The timer set by root.after(100, ...) fires: check_queue starts in the UI
\* thread, which runs one callback at a time                      (line 246)
TimerFire(s) ==
    /\ poller[s] = "waiting"
    /\ UiIdle
    /\ poller' = [poller EXCEPT ![s] = "draining"]
    /\ UNCHANGED <<worker, msg_queue, text_output, emitted, uiVars, notChanVars>>

\* msg_queue.get_nowait() returns an event, which is appended to the output
\*                                                            (lines 241-243)
PollGet(s) ==
    /\ poller[s] = "draining"
    /\ msg_queue[s] # << >>
    /\ text_output' = Append(text_output, Head(msg_queue[s]))
    /\ msg_queue' = [msg_queue EXCEPT ![s] = Tail(@)]
    /\ UNCHANGED <<worker, poller, emitted, uiVars, notChanVars>>

\* msg_queue.get_nowait() raises queue.Empty: the next poll is scheduled
\*                                                            (lines 244-246)
PollEmpty(s) ==
    /\ poller[s] = "draining"
    /\ msg_queue[s] = << >>
    /\ poller' = [poller EXCEPT ![s] = "waiting"]
    /\ UNCHANGED <<worker, msg_queue, text_output, emitted, uiVars, notChanVars>>

NextChan ==
    \/ run_download
    \/ \E s \in Sessions :
        \/ WorkerPut(s)
        \/ WorkerReturn(s)
        \/ download_complete(s)
        \/ TimerFire(s)
        \/ PollGet(s)
        \/ PollEmpty(s)

\* The UI loop keeps running: a timer that is due fires although other
\* callbacks run in between, and a running check_queue goes on; the worker
\* thread keeps running, and download_audio_files returns (every request
\* has a timeout)
SpecChan ==
    /\ InitChan
    /\ [][NextChan]_vars
    /\ \A s \in Sessions :
          /\ WF_vars(WorkerReturn(s))
          /\ SF_vars(download_complete(s))
          /\ SF_vars(TimerFire(s))
          /\ WF_vars(PollGet(s))
          /\ WF_vars(PollEmpty(s))

----------------------------------------------------------------------------
(* The duplicate finder tab: run_check, the result view and delete_file     *)

MaxRows == 2

\* The children of `frame` that the grid manages: the widget, its class,
\* its cell and the columns it spans.  The two buttons 'Check Duplicates'
\* and 'Export to CSV' are packed inside button_frame, they are not
\* children of `frame`                                     (lines 1515-1532)
FrameGrid ==
    { [widget |-> "label1", class |-> "ttk.Label", row |-> 0, column |-> 0, columnspan |-> 1],
      [widget |-> "entry1", class |-> "ttk.Entry", row |-> 0, column |-> 1, columnspan |-> 1],
      [widget |-> "browse1", class |-> "ttk.Button", row |-> 0, column |-> 2, columnspan |-> 1],
      [widget |-> "label2", class |-> "ttk.Label", row |-> 1, column |-> 0, columnspan |-> 1],
      [widget |-> "entry2", class |-> "ttk.Entry", row |-> 1, column |-> 1, columnspan |-> 1],
      [widget |-> "browse2", class |-> "ttk.Button", row |-> 1, column |-> 2, columnspan |-> 1],
      [widget |-> "button_frame", class |-> "ttk.Frame", row |-> 2, column |-> 0, columnspan |-> 3],
      [widget |-> "status_label", class |-> "ttk.Label", row |-> 3, column |-> 1, columnspan |-> 1] }

\* frame.grid_slaves(row, column): the children whose cells cover it
grid_slaves(row, column) ==
    { w \in FrameGrid :
        /\ w.row = row
        /\ w.column <= column
        /\ column < w.column + w.columnspan }

\* isinstance(widget, tk.Button): ttk.Button derives from ttk.Widget, not
\* from tkinter.Button                                            (line 347)
IsTkButton(w) == w.class = "tk.Button"

\* The button run_check finds, None when the loop finds none
\*                                                          (lines 345-348)
None == [widget |-> "None", class |-> "NoneType", row |-> -1, column |-> -1, columnspan |-> 0]
FoundButton ==
    IF \E w \in grid_slaves(2, 1) : IsTkButton(w)
    THEN CHOOSE w \in grid_slaves(2, 1) : IsTkButton(w)
    ELSE None

\* The paths the rows name
ViewPaths == {"p", "q", "r", "s"}

\* The values of a row: (Duplicate File 1, Duplicate File 2)
Rows == ViewPaths \X ViewPaths

\* The paths a sequence of rows names
Named(rows) == { rows[k][1] : k \in DOMAIN rows } \cup { rows[k][2] : k \in DOMAIN rows }

\* Pairs as find_duplicates returns them for two separate folders: the
\* first element is the first file seen with a fingerprint, the second a
\* later file with the same fingerprint; a file is the second element of
\* one pair at most and never the first element of another
\*                                                          (lines 219-224)
ScanResult(rows) ==
    /\ \A k \in DOMAIN rows : rows[k][1] # rows[k][2]
    /\ \A j \in DOMAIN rows, k \in DOMAIN rows :
          /\ rows[j][1] # rows[k][2]
          /\ j # k => rows[j][2] # rows[k][2]

\* The rows are pairs find_duplicates returned, as update_tree inserts them
\* (lines 233-234), every file they name still on disk
InitView ==
    /\ tree \in { rows \in UNION { [1..n -> Rows] : n \in 0..MaxRows } :
                    ScanResult(rows) }
    /\ onDisk = Named(tree)
    /\ check_button = "normal"
    /\ checkRuns = 0
    /\ checkThreads = 0
    /\ callbackError = {}
    /\ deleted = {}
    /\ IdleFp
    /\ IdleScan
    /\ IdleDl
    /\ IdleChan
    /\ IdleSess
    /\ IdlePlayer

\* A click on 'Check Duplicates': run_check.  valid: both folders are
\* given.  button.config raises AttributeError when the lookup found no
\* button; Tk reports the exception and the handler ends there
\*                                                          (lines 337-359)
run_check ==
    /\ check_button = "normal"
    /\ checkRuns < MaxSessions
    /\ \E valid \in BOOLEAN :
         IF ~valid
         THEN UNCHANGED <<viewVars, uiVars>>
         ELSE /\ checkRuns' = checkRuns + 1
              /\ IF FoundButton = None
                 THEN /\ callbackError' = callbackError \cup {"run_check"}
                      /\ UNCHANGED <<check_button, status_label, checkThreads>>
                 ELSE /\ check_button' = "disabled"
                      /\ status_label' = <<"Processing...", 0>>
                      /\ checkThreads' = checkThreads + 1
                      /\ UNCHANGED callbackError
              /\ UNCHANGED <<tree, onDisk, deleted, download_button, terminal>>
    /\ UNCHANGED notViewVars

\* The rows without the one at position k
WithoutRow(rows, k) == SubSeq(rows, 1, k - 1) \o SubSeq(rows, k + 1, Len(rows))

\* The loop of lines 273-277: the first row naming the path is deleted,
\* then the loop ends (break)
RowsAfterDelete(rows, path) ==
    IF \E k \in DOMAIN rows : rows[k][1] = path \/ rows[k][2] = path
    THEN WithoutRow(rows, CHOOSE k \in DOMAIN rows :
                        /\ rows[k][1] = path \/ rows[k][2] = path
                        /\ \A j \in 1..(k - 1) :
                               rows[j][1] # path /\ rows[j][2] # path)
    ELSE rows

\* 'Delete File 1' / 'Delete File 2' of the menu show_menu posts for the
\* selected row: delete_file(path).  confirmed: the answer to askyesno;
\* os.remove raises when the file is not there or cannot be removed (rmOk)
\*                                                          (lines 267-288)
delete_file ==
    /\ \E k \in DOMAIN tree, n \in 1..2, confirmed \in BOOLEAN, rmOk \in BOOLEAN :
         LET path == tree[k][n] IN
         IF confirmed /\ rmOk /\ path \in onDisk
         THEN /\ onDisk' = onDisk \ {path}
              /\ deleted' = deleted \cup {path}
              /\ tree' = RowsAfterDelete(tree, path)
         ELSE UNCHANGED <<tree, onDisk, deleted>>
    /\ UNCHANGED <<check_button, checkRuns, checkThreads, callbackError,
                   uiVars, notViewVars>>

NextView ==
    \/ run_check
    \/ delete_file

SpecView == InitView /\ [][NextView]_vars

----------------------------------------------------------------------------
(* A scan and a download running at the same time, each called again after  *)
(* it returned                                                              *)

\* An index that starts with the entries of the previous session
NewIndex_Kept(previous) == previous

\* fingerprints = {} (line 208), existing_fingerprints = {} (line 90): the
\* index is a local variable bound to a new dict at every call
NewIndex(previous) == EmptyDict

\* Both operations work on files with the same bytes: two copies in the
\* scanned trees, one file in existing_folder, one link serving these bytes
InitSessions ==
    /\ lib = [f \in LibPaths |->
                IF f \in {LibOrder[1], LibOrder[3]} THEN <<97, 97>> ELSE NoFile]
    /\ folder1 = "A"
    /\ folder2 = "B"
    /\ scanPc = "walk"
    /\ walkPos = 1
    /\ fingerprints = EmptyDict
    /\ duplicates = << >>
    /\ processed_count = 0
    /\ scanMsgs = << >>
    /\ visits = << >>
    /\ links = << [text |-> <<"a">>, ext |-> ".mp3", body |-> <<97, 97>>] >>
    /\ existing_folder = "E"
    /\ exFiles = [f \in ExPaths |-> IF f = ExOrder[1] THEN <<97, 97>> ELSE NoFile]
    /\ disk = [q \in DlPaths |-> NoFile]
    /\ pc = "start"
    /\ exPos = 1
    /\ i = 1
    /\ existing_fingerprints = EmptyDict
    /\ successful_downloads = 0
    /\ skipped_duplicates = 0
    /\ temp_filename = Unbound
    /\ file_response = NoFile
    /\ msgs = << >>
    /\ result = NoResult
    /\ outcome = [k \in DOMAIN links |-> "none"]
    /\ fetched = {}
    /\ received = [k \in DOMAIN links |-> NoFile]
    /\ badResp = {}
    /\ existedAtTurn = {}
    /\ wroteTmp = {}
    /\ fileOwner = [q \in DlPaths |-> 0]
    /\ startDigests = {}
    /\ indexLog = << >>
    /\ rmFailed = {}
    /\ dupRemoved = {}
    /\ scanRun = 1
    /\ dlRun = 1
    /\ IdleFp
    /\ IdleChan
    /\ IdleView
    /\ IdlePlayer

\* find_duplicates is called again: its locals are bound anew
\*                                                          (lines 208-211)
ScanAgain ==
    /\ scanPc = "returned"
    /\ scanRun >= 1
    /\ scanRun < MaxSessions
    /\ scanRun' = scanRun + 1
    /\ fingerprints' = NewIndex(fingerprints)
    /\ duplicates' = << >>
    /\ processed_count' = 0
    /\ scanMsgs' = << >>
    /\ visits' = << >>
    /\ walkPos' = 1
    /\ scanPc' = "walk"
    /\ UNCHANGED <<lib, folder1, folder2, dlRun, fpVars, dlVars, histVars, chanVars, uiVars, viewVars,
                   playerVars>>

\* download_audio_files is called again with the same arguments: its
\* locals are bound anew, the files on disk stay      (lines 84-90, 123-126)
DlAgain ==
    /\ pc = "done"
    /\ dlRun >= 1
    /\ dlRun < MaxSessions
    /\ dlRun' = dlRun + 1
    /\ existing_fingerprints' = NewIndex(existing_fingerprints)
    /\ pc' = "start"
    /\ exPos' = 1
    /\ i' = 1
    /\ successful_downloads' = 0
    /\ skipped_duplicates' = 0
    /\ temp_filename' = Unbound
    /\ file_response' = NoFile
    /\ msgs' = << >>
    /\ result' = NoResult
    /\ outcome' = [k \in DOMAIN links |-> "none"]
    /\ fetched' = {}
    /\ received' = [k \in DOMAIN links |-> NoFile]
    /\ badResp' = {}
    /\ existedAtTurn' = {}
    /\ wroteTmp' = {}
    /\ fileOwner' = [q \in DlPaths |-> 0]
    /\ startDigests' = {}
    /\ indexLog' = << >>
    /\ rmFailed' = {}
    /\ dupRemoved' = {}
    /\ UNCHANGED <<links, existing_folder, exFiles, disk, scanRun,
                   fpVars, scanVars, chanVars, uiVars, viewVars, playerVars>>

NextSessions ==
    \/ NextScan
    \/ NextDl
    \/ ScanAgain
    \/ DlAgain

SpecSessions == InitSessions /\ [][NextSessions]_vars

----------------------------------------------------------------------------
(* The player: the playlist, the playback handlers and the two periodic     *)
(* callbacks update_progress and check_music_end                            *)

MaxTracks == 2

\* The audio files a track can name
TrackFiles == {"t1", "t2"}

\* The playlists of the model
Playlists == UNION { [1..n -> TrackFiles] : n \in 0..MaxTracks }

\* 0 <= k < len(pl)
ValidIndex(pl, k) == 0 <= k /\ k < Len(pl)

\* pl[k], counted from 0 as the source does
TrackAt(pl, k) == pl[k + 1]

\* A cancel that leaves the timer pending
Cancelled_Kept(timers, id) == timers

\* root.after_cancel(id)                                   (lines 1146, 1153)
Cancelled(timers, id) == timers \ {id}

\* The id root.after returns: one that no pending timer has and that the
\* variable does not hold                                         (line 1132)
NewTimer(timers, held) ==
    CHOOSE n \in 1..(Cardinality(timers) + 2) :
        /\ n \notin timers \cup {held}
        /\ \A m \in 1..(n - 1) : m \in timers \cup {held}

\* A stop that leaves the pause flag as it was
PausedAfterStop_Kept(p) == p

\* is_paused = False in stop_track                                (line 1023)
PausedAfterStop(p) == FALSE

InitPlayer ==
    /\ IdlePlayer
    /\ IdleFp
    /\ IdleScan
    /\ IdleDl
    /\ IdleChan
    /\ IdleSess
    /\ IdleView

\* start_progress_tracking followed by the update_progress it calls, with
\* is_playing already set: the pending timer is cancelled and a new one is
\* scheduled                                               (lines 1131-1147)
StartProgress ==
    LET kept == IF progress_update_id # 0
                THEN Cancelled(afterTimers, progress_update_id)
                ELSE afterTimers
        n == NewTimer(kept, progress_update_id)
    IN  /\ afterTimers' = kept \cup {n}
        /\ progress_update_id' = n

\* play_track(track_index) called by handler op, the playlist being as it
\* is now.  loaded: pygame.mixer.music.load and play succeed; when they
\* raise, the stream that was playing goes on or has been stopped
\*                                                          (lines 969-1001)
PlayTrack(op, track_index) ==
    /\ IF current_playlist = << >>
       THEN /\ lastStep' = <<op, "none">>
            /\ UNCHANGED <<current_track_index, is_playing, is_paused,
                           progress_update_id, afterTimers, mixer, started>>
       ELSE /\ current_track_index' = track_index
            /\ IF ValidIndex(current_playlist, track_index)
               THEN /\ lastStep' = <<op, TrackAt(current_playlist, track_index)>>
                    /\ \E loaded \in BOOLEAN :
                         IF loaded
                         THEN /\ mixer' = "playing"
                              /\ started' = TrackAt(current_playlist, track_index)
                              /\ is_playing' = TRUE
                              /\ is_paused' = FALSE
                              /\ StartProgress
                         ELSE /\ mixer' \in {mixer, "idle"}
                              /\ UNCHANGED <<is_playing, is_paused, started,
                                             progress_update_id, afterTimers>>
               ELSE /\ lastStep' = <<op, "none">>
                    /\ UNCHANGED <<is_playing, is_paused, progress_update_id,
                                   afterTimers, mixer, started>>
    /\ UNCHANGED <<current_playlist, shuffle_mode, repeat_mode>>

\* The body of stop_track, with stop_progress_tracking    (lines 1017-1025,
\* 1149-1154)
StopTrack ==
    /\ mixer' = "idle"
    /\ is_playing' = FALSE
    /\ is_paused' = PausedAfterStop(is_paused)
    /\ afterTimers' = IF progress_update_id # 0
                      THEN Cancelled(afterTimers, progress_update_id)
                      ELSE afterTimers
    /\ progress_update_id' = 0

\* The play button while nothing plays, and a double click on a row of the
\* playlist: play_track() and play_track(i)       (lines 1653, 1161-1170)
play_track ==
    /\ \/ /\ ~is_playing
          /\ PlayTrack("play_track", current_track_index)
       \/ \E k \in 0..(Len(current_playlist) - 1) : PlayTrack("play_track", k)
    /\ UNCHANGED notPlayerVars

\* The play button while is_playing                  (lines 1003-1015, 1653)
pause_track ==
    /\ is_playing
    /\ IF is_paused
       THEN /\ mixer' = IF mixer = "paused" THEN "playing" ELSE mixer
            /\ is_paused' = FALSE
       ELSE /\ mixer' = IF mixer = "playing" THEN "paused" ELSE mixer
            /\ is_paused' = TRUE
    /\ lastStep' = <<"pause_track", "none">>
    /\ UNCHANGED <<current_playlist, current_track_index, is_playing,
                   shuffle_mode, repeat_mode, progress_update_id, afterTimers,
                   started, notPlayerVars>>

\* The stop button                                         (lines 1017-1025)
stop_track ==
    /\ StopTrack
    /\ lastStep' = <<"stop_track", "none">>
    /\ UNCHANGED <<current_playlist, current_track_index, shuffle_mode,
                   repeat_mode, started, notPlayerVars>>

\* next_track called by handler op                         (lines 1027-1039)
NextTrack(op) ==
    IF current_playlist = << >>
    THEN /\ lastStep' = <<op, "none">>
         /\ UNCHANGED <<current_playlist, current_track_index, is_playing,
                        is_paused, shuffle_mode, repeat_mode,
                        progress_update_id, afterTimers, mixer, started>>
    ELSE \E k \in IF shuffle_mode
                  THEN 0..(Len(current_playlist) - 1)
                  ELSE {(current_track_index + 1) % Len(current_playlist)} :
            PlayTrack(op, k)

\* The next button
next_track ==
    /\ NextTrack("next_track")
    /\ UNCHANGED notPlayerVars

\* The previous button                                     (lines 1041-1049)
previous_track ==
    /\ IF current_playlist = << >>
       THEN /\ lastStep' = <<"previous_track", "none">>
            /\ UNCHANGED <<current_playlist, current_track_index, is_playing,
                           is_paused, shuffle_mode, repeat_mode,
                           progress_update_id, afterTimers, mixer, started>>
       ELSE PlayTrack("previous_track",
                      (current_track_index - 1) % Len(current_playlist))
    /\ UNCHANGED notPlayerVars

\* toggle_shuffle and toggle_repeat                        (lines 1058-1070)
toggle_mode ==
    /\ \/ shuffle_mode' = ~shuffle_mode /\ UNCHANGED repeat_mode
       \/ repeat_mode' = ~repeat_mode /\ UNCHANGED shuffle_mode
    /\ lastStep' = <<"toggle_mode", "none">>
    /\ UNCHANGED <<current_playlist, current_track_index, is_playing,
                   is_paused, progress_update_id, afterTimers, mixer, started,
                   notPlayerVars>>

\* add_folder_to_playlist and add_files_to_playlist append tracks
\*                                                         (lines 1172-1200)
add_to_playlist ==
    /\ Len(current_playlist) < MaxTracks
    /\ \E t \in TrackFiles : current_playlist' = Append(current_playlist, t)
    /\ lastStep' = <<"add_to_playlist", "none">>
    /\ UNCHANGED <<current_track_index, is_playing, is_paused, shuffle_mode,
                   repeat_mode, progress_update_id, afterTimers, mixer,
                   started, notPlayerVars>>

\* The playlist without the positions in gone
Without(pl, gone) ==
    LET keep == SelectSeq([k \in 1..Len(pl) |-> k], LAMBDA k : k \notin gone)
    IN  [k \in 1..Len(keep) |-> pl[keep[k]]]

\* remove_from_playlist: the selected rows are deleted from the list
\*                                                         (lines 1202-1218)
remove_from_playlist ==
    /\ \E gone \in SUBSET (1..Len(current_playlist)) :
         /\ gone # {}
         /\ current_playlist' = Without(current_playlist, gone)
    /\ lastStep' = <<"remove_from_playlist", "none">>
    /\ UNCHANGED <<current_track_index, is_playing, is_paused, shuffle_mode,
                   repeat_mode, progress_update_id, afterTimers, mixer,
                   started, notPlayerVars>>

\* clear_playlist                                          (lines 1220-1227)
clear_playlist ==
    /\ current_playlist' = << >>
    /\ current_track_index' = -1
    /\ StopTrack
    /\ lastStep' = <<"clear_playlist", "none">>
    /\ UNCHANGED <<shuffle_mode, repeat_mode, started, notPlayerVars>>

\* load_playlist_file with a file that holds a non-empty list
\*                                                         (lines 1244-1256)
load_playlist_file ==
    /\ \E loaded_playlist \in Playlists \ {<< >>} :
         current_playlist' = loaded_playlist
    /\ lastStep' = <<"load_playlist_file", "none">>
    /\ UNCHANGED <<current_track_index, is_playing, is_paused, shuffle_mode,
                   repeat_mode, progress_update_id, afterTimers, mixer,
                   started, notPlayerVars>>

\* The playlist with the tracks at positions j and k exchanged
Swapped(pl, j, k) == [pl EXCEPT ![j] = pl[k], ![k] = pl[j]]

\* move_track_up and move_track_down for the selected row
\*                                                         (lines 1273-1301)
move_track ==
    /\ \E k \in 1..Len(current_playlist) :
         \/ k > 1 /\ current_playlist' = Swapped(current_playlist, k, k - 1)
         \/ /\ k < Len(current_playlist)
            /\ current_playlist' = Swapped(current_playlist, k, k + 1)
    /\ lastStep' = <<"move_track", "none">>
    /\ UNCHANGED <<current_track_index, is_playing, is_paused, shuffle_mode,
                   repeat_mode, progress_update_id, afterTimers, mixer,
                   started, notPlayerVars>>

\* The stream reaches the end of the file
MusicEnds ==
    /\ mixer = "playing"
    /\ mixer' = "idle"
    /\ lastStep' = <<"none", "none">>
    /\ UNCHANGED <<current_playlist, current_track_index, is_playing,
                   is_paused, shuffle_mode, repeat_mode, progress_update_id,
                   afterTimers, started, notPlayerVars>>

\* A pending update_progress timer fires               (lines 1110-1132)
update_progress ==
    /\ \E id \in afterTimers :
         LET rest == afterTimers \ {id} IN
         IF is_playing
         THEN /\ afterTimers' = rest \cup {NewTimer(rest, progress_update_id)}
              /\ progress_update_id' = NewTimer(rest, progress_update_id)
         ELSE /\ afterTimers' = rest
              /\ UNCHANGED progress_update_id
    /\ lastStep' = <<"update_progress", "none">>
    /\ UNCHANGED <<current_playlist, current_track_index, is_playing,
                   is_paused, shuffle_mode, repeat_mode, mixer, started,
                   notPlayerVars>>

\* pygame.mixer.music.get_busy()
get_busy == mixer = "playing"

\* The periodic check_music_end                            (lines 1303-1312)
check_music_end ==
    /\ IF is_playing /\ ~get_busy /\ ~is_paused
       THEN IF repeat_mode
            THEN PlayTrack("check_music_end", current_track_index)
            ELSE NextTrack("check_music_end")
       ELSE /\ lastStep' = <<"check_music_end", "none">>
            /\ UNCHANGED <<current_playlist, current_track_index, is_playing,
                           is_paused, shuffle_mode, repeat_mode,
                           progress_update_id, afterTimers, mixer, started>>
    /\ UNCHANGED notPlayerVars

NextPlayer ==
    \/ play_track
    \/ pause_track
    \/ stop_track
    \/ next_track
    \/ previous_track
    \/ toggle_mode
    \/ add_to_playlist
    \/ remove_from_playlist
    \/ clear_playlist
    \/ load_playlist_file
    \/ move_track
    \/ MusicEnds
    \/ update_progress
    \/ check_music_end

SpecPlayer == InitPlayer /\ [][NextPlayer]_vars

----------------------------------------------------------------------------
(* Properties of audio_fingerprint *)

\* C9 (as claimed): a call on a file that cannot be opened, sought or read
\* fails with an error; it never returns a digest for such a file.
C9_UnreadableFileRaises ==
    \A c \in DOMAIN fpCalls :
        fpCalls[c].cond # "ok" => fpCalls[c].ret = Raised

\* C10 (as claimed): the digest depends on the bytes of the file only: two
\* calls that return a digest for files with identical bytes (the same file
\* twice, or two files of different name and location), whatever the
\* readability of the file at each call, return the same digest.
C10_DigestDependsOnContentOnly ==
    \A c1, c2 \in DOMAIN fpCalls :
        ( /\ fpFiles[fpCalls[c1].path] = fpFiles[fpCalls[c2].path]
          /\ fpCalls[c1].ret # Raised
          /\ fpCalls[c2].ret # Raised )
        => fpCalls[c1].ret = fpCalls[c2].ret

\* C11 (as claimed): two calls that return a digest for files of different
\* total size return different digests, on every path by which
\* audio_fingerprint returns a digest.
C11_DifferentSizesDifferentDigests ==
    \A c1, c2 \in DOMAIN fpCalls :
        ( /\ Len(fpFiles[fpCalls[c1].path]) # Len(fpFiles[fpCalls[c2].path])
          /\ fpCalls[c1].ret # Raised
          /\ fpCalls[c2].ret # Raised )
        => fpCalls[c1].ret # fpCalls[c2].ret

\* The leading bytes of a file: the first min(size, ChunkSize) bytes
LeadingChunk(content) ==
    [k \in 1..Min(Len(content), ChunkSize) |-> content[k]]

\* The trailing chunk of a file: its last ChunkSize bytes when it is
\* strictly longer than TailThreshold, nothing otherwise
TrailingChunk(content) ==
    IF Len(content) > TailThreshold
    THEN [k \in 1..ChunkSize |-> content[Len(content) - ChunkSize + k]]
    ELSE << >>

\* C12: the digest of a readable file is the digest of decimal(size), then
\* the leading chunk, then the trailing chunk; a file of exactly
\* TailThreshold bytes has an empty trailing chunk; a file of at most
\* ChunkSize bytes is hashed in full; two readable files that agree on size,
\* leading chunk and trailing chunk get equal digests.
C12_DigestOfSizeFirstAndTrailingChunk ==
    \A c1 \in DOMAIN fpCalls : fpCalls[c1].cond = "ok" =>
        LET content == fpFiles[fpCalls[c1].path] IN
        /\ fpCalls[c1].ret =
              Sha256(Decimal(Len(content)) \o LeadingChunk(content)
                                           \o TrailingChunk(content))
        /\ Len(content) = TailThreshold =>
              fpCalls[c1].ret = Sha256(Decimal(Len(content)) \o LeadingChunk(content))
        /\ Len(content) <= ChunkSize =>
              fpCalls[c1].ret = Sha256(Decimal(Len(content)) \o content)
        /\ \A c2 \in DOMAIN fpCalls :
              LET other == fpFiles[fpCalls[c2].path] IN
              ( /\ fpCalls[c2].cond = "ok"
                /\ Len(other) = Len(content)
                /\ LeadingChunk(other) = LeadingChunk(content)
                /\ TrailingChunk(other) = TrailingChunk(content) )
              => fpCalls[c2].ret = fpCalls[c1].ret

\* C12 witness: two readable files longer than TailThreshold that differ in
\* a middle byte only were fingerprinted and got the same digest
C12_Witness ==
    \E c1, c2 \in DOMAIN fpCalls :
        /\ fpCalls[c1].cond = "ok"
        /\ fpCalls[c2].cond = "ok"
        /\ Len(fpFiles[fpCalls[c1].path]) > TailThreshold
        /\ fpFiles[fpCalls[c1].path] # fpFiles[fpCalls[c2].path]
        /\ fpCalls[c1].ret = fpCalls[c2].ret

----------------------------------------------------------------------------
(* Properties of find_duplicates *)

\* The audio files of the traversal, in traversal order
AudioTraversal == SelectSeq(Traversal, IsAudio)

\* The first visit that returned the digest returned at visit v
FirstVisit(v) ==
    CHOOSE u \in 1..v :
        /\ visits[u].ret = visits[v].ret
        /\ \A w \in 1..(u - 1) : visits[w].ret # visits[v].ret

\* Visit v returned a digest that an earlier visit had returned
IsRepeat(v) == visits[v].ret # Raised /\ FirstVisit(v) < v

\* The visits that found a duplicate, in traversal order
RepeatVisits == SelectSeq([k \in 1..Len(visits) |-> k], IsRepeat)

\* C6: the visited files are the audio files of folder1 then folder2 in walk
\* order; the list of pairs has one pair per visit whose digest was returned
\* by an earlier visit, in the order of these visits, and the original of the
\* pair is the path of the first visit that returned this digest.
C6_OriginalIsFirstSeenInTraversalOrder ==
    /\ Len(visits) <= Len(AudioTraversal)
    /\ \A v \in DOMAIN visits : visits[v].path = AudioTraversal[v]
    /\ Len(duplicates) = Len(RepeatVisits)
    /\ \A n \in DOMAIN duplicates :
         duplicates[n] = << visits[FirstVisit(RepeatVisits[n])].path,
                            visits[RepeatVisits[n]].path >>

\* C6 witness: a returned scan of two different roots with two pairs that
\* have the same original and different duplicates
C6_Witness ==
    /\ scanPc = "returned"
    /\ folder1 # folder2
    /\ Len(duplicates) = 2
    /\ duplicates[1][1] = duplicates[2][1]
    /\ duplicates[1][2] # duplicates[2][2]
    /\ duplicates[1][1] # duplicates[1][2]

\* The files (paths) for which the scan got digest d
FilesWithDigest(d) == { visits[v].path : v \in {u \in DOMAIN visits : visits[u].ret = d} }

\* The pairs reported for digest d
PairsWithDigest(d) == { n \in DOMAIN duplicates : visits[RepeatVisits[n]].ret = d }

\* C7 (as claimed): k files sharing one fingerprint yield exactly k-1 pairs,
\* all with the same first element; two directories with one copy each of
\* the same file and no other audio file yield exactly one pair (first copy
\* reached, other copy) and processed_count 2.
C7_KFilesYieldKMinusOnePairs ==
    scanPc = "returned" =>
        /\ \A d \in DOMAIN fingerprints :
             /\ Cardinality(PairsWithDigest(d)) = Cardinality(FilesWithDigest(d)) - 1
             /\ \A n \in PairsWithDigest(d) : duplicates[n][1] = fingerprints[d]
        /\ ( /\ Len(Walk(LibOrder, lib, folder1)) = 1
             /\ Len(Walk(LibOrder, lib, folder2)) = 1
             /\ Len(visits) = 2
             /\ visits[1].ret = visits[2].ret
             /\ visits[1].ret # Raised )
           => /\ duplicates = << <<visits[1].path, visits[2].path>> >>
              /\ visits[1].path # visits[2].path
              /\ processed_count = 2

\* C8 (as claimed): an audio file that cannot be opened, sought or read is
\* skipped: no digest is obtained for it (so it enters neither the index nor
\* a pair), it is not counted, and one 'Skipped' event is emitted for it.
C8_UnreadableFileSkipped ==
    LET bad == { v \in DOMAIN visits : visits[v].cond # "ok" } IN
    /\ \A v \in bad : visits[v].ret = Raised
    /\ processed_count = Len(visits) - Cardinality(bad)
    /\ Len(scanMsgs) = Cardinality(bad)

\* The files whose name does not end, in any letter case, in one of the
\* audio extensions
IgnoredFiles == { f \in LibPaths : Lower(f.ext) \notin audio_extensions }

\* The files the traversal has passed so far
Passed == { Traversal[k] : k \in 1..(walkPos - 1) }

\* C20: a file whose name does not end (case-insensitively) in an audio
\* extension is ignored by the scan: it is never fingerprinted, never in the
\* index, never in a pair and never counted; processed_count counts only
\* fingerprinted audio files; and a scan of trees that hold only such files
\* returns no pair and processed_count 0.
C20_NonAudioFilesIgnored ==
    /\ \A f \in IgnoredFiles :
          /\ \A v \in DOMAIN visits : visits[v].path # f
          /\ \A d \in DOMAIN fingerprints : fingerprints[d] # f
          /\ \A n \in DOMAIN duplicates : duplicates[n][1] # f /\ duplicates[n][2] # f
    /\ processed_count <= Len(SelectSeq(SubSeq(Traversal, 1, walkPos - 1),
                                        LAMBDA f : f \notin IgnoredFiles))
    /\ (scanPc = "returned" /\ Passed \subseteq IgnoredFiles)
          => /\ duplicates = << >>
             /\ processed_count = 0
             /\ fingerprints = EmptyDict

\* C20 witness: a scan returned after walking two different trees that
\* hold a non-audio file and no audio file
C20_Witness ==
    /\ scanPc = "returned"
    /\ folder1 # folder2
    /\ Passed # {}
    /\ Passed \subseteq IgnoredFiles
    /\ processed_count = 0
    /\ duplicates = << >>

\* C21 (as claimed): when the scan returns, its events are one progress
\* event per returned pair, naming the file found to be a duplicate, in the
\* order of the pairs, followed by one final summary event.
C21_OneEventPerDuplicateThenSummary ==
    scanPc = "returned" =>
        /\ Len(scanMsgs) = Len(duplicates) + 1
        /\ \A n \in DOMAIN duplicates :
              scanMsgs[n] = <<"Duplicate", duplicates[n][2]>>
        /\ scanMsgs[Len(scanMsgs)] = <<"Summary", processed_count>>

\* The visits at which audio_fingerprint raised, in traversal order
RaisedVisits ==
    SelectSeq([k \in 1..Len(visits) |-> k], LAMBDA v : visits[v].ret = Raised)

\* C21 (amended): the only events a scan emits are 'Skipped' events, exactly
\* one for each audio file whose fingerprinting raised, naming that file, in
\* traversal order; no event is emitted for a duplicate and there is no
\* summary event, whatever number of pairs the scan returns.
C21_OnlySkippedEventsAreEmitted ==
    /\ Len(scanMsgs) = Len(RaisedVisits)
    /\ \A n \in DOMAIN scanMsgs :
          scanMsgs[n] = <<"Skipped", visits[RaisedVisits[n]].path>>

\* C21 witness: a scan returned two pairs and skipped one file; its only
\* event is the one for the skipped file
C21_Witness ==
    /\ scanPc = "returned"
    /\ Len(duplicates) = 2
    /\ Len(scanMsgs) = 1
    /\ \E v \in DOMAIN visits : visits[v].ret = Raised

\* C22: no step of a scan changes the file system: no file under either
\* root is created, deleted, renamed or written.
C22_ScanLeavesFilesUnchanged == [][lib' = lib]_vars

\* C22 witness: a scan returned after fingerprinting three files, one of
\* them found to be a duplicate
C22_Witness ==
    /\ scanPc = "returned"
    /\ processed_count = 3
    /\ Len(duplicates) = 1
    /\ \A f \in LibPaths : IsAudio(f) => lib[f] # NoFile

\* C30 (as claimed): every pair find_duplicates returns has two different
\* paths, and no path is the second (duplicate) element of more than one
\* pair, whatever folder1 and folder2 are, equal or nested included.
C30_PairsNameTwoFilesAndEachDuplicateOnce ==
    /\ \A n \in DOMAIN duplicates : duplicates[n][1] # duplicates[n][2]
    /\ \A m \in DOMAIN duplicates, n \in DOMAIN duplicates :
          m # n => duplicates[m][2] # duplicates[n][2]

\* The files for which the scan obtained a fingerprint
Fingerprinted ==
    { visits[v].path : v \in { u \in DOMAIN visits : visits[u].ret # Raised } }

\* The index entries whose path is p
IndexEntriesOf(p) == { d \in DOMAIN fingerprints : fingerprints[d] = p }

\* The pairs whose duplicate element is p
PairsOf(p) == { n \in DOMAIN duplicates : duplicates[n][2] = p }

\* processed_count is the number of pairs plus the number of index entries
CountIsPairsPlusEntries ==
    processed_count = Len(duplicates) + Cardinality(DOMAIN fingerprints)

\* Each fingerprinted file is the path of one index entry and in no pair as
\* the duplicate, or the duplicate of one pair and in no index entry
EachFileIndexedOrPairedOnce ==
    \A p \in Fingerprinted :
        \/ Cardinality(IndexEntriesOf(p)) = 1 /\ PairsOf(p) = {}
        \/ IndexEntriesOf(p) = {} /\ Cardinality(PairsOf(p)) = 1

\* C31 (as claimed): at every step of a scan and at its return,
\* processed_count equals the number of pairs plus the number of index
\* entries, and each fingerprinted file is either the path of exactly one
\* index entry or the duplicate element of exactly one pair.
C31_CountAndPartitionOfFingerprintedFiles ==
    /\ CountIsPairsPlusEntries
    /\ EachFileIndexedOrPairedOnce

----------------------------------------------------------------------------
(* Properties of download_audio_files *)

\* The page was fetched and parsed: the session is past its setup
PageParsed == \E k \in DOMAIN msgs : msgs[k][1] = "Found audio files"

\* The candidates whose outcome is o
WithOutcome(o) == { k \in DOMAIN links : outcome[k] = o }

\* The digest audio_fingerprint computes from these bytes
ContentDigest(bytes) == Sha256(HashedBytes(bytes))

\* C1 (as claimed): once the session is past its setup, a failure while
\* processing a candidate never ends it: when the session returns, every
\* candidate has been processed and the result holds the counts accumulated.
C1_CandidateFailureNeverEndsSession ==
    (pc = "done" /\ PageParsed) =>
        /\ \A k \in DOMAIN links : outcome[k] \notin {"none", "Aborted"}
        /\ result = <<successful_downloads, Len(links), skipped_duplicates>>

\* Links a < b were both fetched, passed the integrity checks with the same
\* bytes, and nothing matched these bytes before: no file of the existing
\* folder and no earlier link of the page has them, and the duplicate check
\* of a found no match
IdenticalPair(a, b) ==
    /\ a < b
    /\ received[a] # NoFile
    /\ received[a] = received[b]
    /\ ContentDigest(received[a]) \notin startDigests
    /\ \A c \in 1..(a - 1) : received[c] # received[a]
    /\ outcome[a] # "SkippedDuplicate"

\* C2 (as claimed): of two links with identical fetched bytes, the earlier is
\* Downloaded and the later is SkippedDuplicate, reported against the file
\* of the earlier.  Stated for the pairs of which neither link ended in a
\* transfer error, the only other outcome a fetched link can have.
C2_IdenticalLinksOneDownloadedOneSkipped ==
    \A a, b \in DOMAIN links :
        ( /\ IdenticalPair(a, b)
          /\ outcome[a] \notin {"none", "FailedTransfer", "Aborted"}
          /\ outcome[b] \notin {"none", "FailedTransfer", "Aborted"} )
        => /\ outcome[a] = "Downloaded"
           /\ outcome[b] = "SkippedDuplicate"
           /\ <<"Duplicate found", b, Filename(links[a])>>
                  \in { msgs[k] : k \in DOMAIN msgs }

\* C3 (as claimed): a candidate whose fetched bytes have a fingerprint that
\* a file of the existing folder had when the session started ends as
\* SkippedDuplicate: its provisional file is deleted, no file of its own is
\* in the destination folder, and it is counted in skipped_duplicates.
\* Stated for the candidates that did not end in a transfer error.
C3_DuplicateOfExistingIsSkipped ==
    \A k \in DOMAIN links :
        ( /\ received[k] # NoFile
          /\ ContentDigest(received[k]) \in startDigests
          /\ outcome[k] \notin {"none", "FailedTransfer", "Aborted"} )
        => /\ outcome[k] = "SkippedDuplicate"
           /\ \A q \in DlPaths : fileOwner[q] # k
           /\ skipped_duplicates >= 1

\* C4: a candidate whose response fails an integrity check is recorded as
\* failed, never gets a provisional file written, owns no file on disk
\* (provisional or final), and is not counted in successful_downloads,
\* which counts exactly the committed candidates.
C4_FailedFetchLeavesNoFile ==
    /\ \A k \in badResp :
         /\ outcome[k] = "FailedIntegrity"
         /\ k \notin wroteTmp
         /\ \A q \in DlPaths : fileOwner[q] # k
    /\ \A q \in DlPaths : fileOwner[q] # 0 => disk[q] # NoFile
    /\ successful_downloads = Cardinality(WithOutcome("Downloaded"))

\* C4 witness: the session returned; a candidate failed an integrity check
\* and a later one was downloaded
C4_Witness ==
    /\ pc = "done"
    /\ \E k \in badResp : \E j \in DOMAIN links :
         k < j /\ outcome[j] = "Downloaded" /\ disk[Filename(links[j])] # NoFile

\* C5: a candidate whose destination path exists when its turn comes is
\* not fetched, gets no provisional file, owns no file on disk, ends as
\* SkippedExisting, and the two counters count exactly the Downloaded and
\* the SkippedDuplicate candidates.
C5_ExistingDestinationIsSkippedUnfetched ==
    /\ \A k \in existedAtTurn :
         /\ k \notin fetched
         /\ k \notin wroteTmp
         /\ \A q \in DlPaths : fileOwner[q] # k
         /\ outcome[k] = "SkippedExisting"
    /\ successful_downloads = Cardinality(WithOutcome("Downloaded"))
    /\ skipped_duplicates = Cardinality(WithOutcome("SkippedDuplicate"))

\* C5 witness: the session returned; a candidate was skipped because its
\* destination had been committed by an earlier candidate of the session,
\* which served other bytes
C5_Witness ==
    /\ pc = "done"
    /\ \E j \in existedAtTurn :
         /\ fileOwner[Filename(links[j])] \in 1..(j - 1)
         /\ links[fileOwner[Filename(links[j])]].body # links[j].body

\* The path of the first assignment of the session for fingerprint d
FirstPathSeen(d) ==
    LET first == CHOOSE k \in DOMAIN indexLog :
                     /\ indexLog[k][1] = d
                     /\ \A j \in 1..(k - 1) : indexLog[j][1] # d
    IN  indexLog[first][2]

\* C13 (as claimed): the index changes by insert-if-absent only: every
\* fingerprint ever inserted is still in the index (nothing is removed) and
\* is mapped to the first path seen with it (nothing is replaced), after the
\* pre-population as well as after the insertions that follow a commit.
C13_IndexInsertIfAbsentOnly ==
    /\ DOMAIN existing_fingerprints = { indexLog[k][1] : k \in DOMAIN indexLog }
    /\ \A d \in DOMAIN existing_fingerprints :
          existing_fingerprints[d] = FirstPathSeen(d)

\* The events of the session, as a set
Events == { msgs[k] : k \in DOMAIN msgs }

\* The final destination paths of the page's candidates
FinalPaths == { Filename(links[k]) : k \in DOMAIN links }

\* C14 (as claimed): fetched bytes go to the provisional path only; a file
\* of the session is at a final destination path only through the rename of
\* a candidate that passed the integrity checks and had its provisional
\* file written; and a candidate whose duplicate check could not be
\* completed is never committed as Downloaded.
C14_CommitOnlyAfterCompletedDuplicateCheck ==
    /\ \A q \in FinalPaths : fileOwner[q] # 0 =>
          LET c == fileOwner[q] IN
          /\ q = Filename(links[c])
          /\ outcome[c] = "Downloaded"
          /\ c \in wroteTmp
          /\ c \notin badResp
          /\ disk[q] = received[c]
    /\ \A c \in DOMAIN links :
          <<"Error checking duplicate", c>> \in Events => outcome[c] # "Downloaded"

\* The provisional paths of the page's candidates
TempPaths == { TempName(Filename(links[k])) : k \in DOMAIN links }

ReturnedSummary ==
    /\ pc = "done"
    /\ msgs[Len(msgs)] = <<"Download complete", successful_downloads,
                                                 skipped_duplicates>>
    /\ result = <<successful_downloads, Len(links), skipped_duplicates>>

\* C16 (as claimed): a session that got past its setup (page fetched and
\* parsed) always terminates by emitting the 'Download complete' summary and
\* returning (successful, number of extracted links, skipped duplicates),
\* however many candidates failed.
C16_PastSetupAlwaysEndsWithSummary == PageParsed ~> ReturnedSummary

\* C17: a session that ended before the page was fetched and parsed (the
\* destination folder could not be created, or the page could not be
\* fetched) returned (0, 0, 0) after a 'Download error' event, fetched no
\* candidate, wrote no provisional file and created no file at all.
C17_SetupFailureEndsWithZeroResult ==
    (pc = "done" /\ ~PageParsed) =>
        /\ result = <<0, 0, 0>>
        /\ msgs[Len(msgs)] = <<"Download error", 0>>
        /\ fetched = {}
        /\ wroteTmp = {}
        /\ \A q \in DlPaths : fileOwner[q] = 0
        /\ \A q \in TempPaths : disk[q] = NoFile
        /\ \A c \in DOMAIN links : outcome[c] = "none"
        /\ successful_downloads = 0
        /\ skipped_duplicates = 0

\* C17 witness: os.makedirs raised for a session whose page holds links;
\* the only event is the error
C17_Witness ==
    /\ pc = "done"
    /\ Len(links) > 0
    /\ msgs = << <<"Download error", 0>> >>
    /\ result = <<0, 0, 0>>

\* Candidate i is being processed, from its fetch to its index insertion
InTurn == pc \in {"fetch", "write", "dupcheck", "rename", "index"}

\* The provisional files on disk
ProvisionalFiles == { q \in TempPaths : disk[q] # NoFile }

\* C18 (as claimed): candidates are processed one at a time in page order:
\* while candidate i is processed every earlier candidate has its outcome
\* recorded and, if it was Downloaded, its fingerprint is in the index; no
\* later candidate has been fetched; at most one provisional file exists at
\* any moment; and the index holds every insertion made for the earlier
\* candidates.  The provisional files counted are those the session did not
\* fail to delete (C15), which makes the statement weaker than the claim.
C18_StrictlySequentialWithVisibleIndex ==
    /\ InTurn =>
          /\ \A c \in 1..(i - 1) :
                /\ outcome[c] # "none"
                /\ outcome[c] = "Downloaded" =>
                      ContentDigest(received[c]) \in DOMAIN existing_fingerprints
          /\ \A c \in (i + 1)..Len(links) : outcome[c] = "none" /\ c \notin fetched
          /\ \A n \in DOMAIN indexLog :
                indexLog[n][1] \in DOMAIN existing_fingerprints
    /\ Cardinality(ProvisionalFiles \ rmFailed) <= 1

\* The fingerprint of the file candidate k committed: the file holds the
\* bytes that were fetched for k
CommittedDigest(k) == ContentDigest(received[k])

\* C29 (as claimed): the files the session committed (Downloaded) have
\* pairwise different fingerprints, and none of them has the fingerprint of
\* an audio file that was in the existing folder when the session started.
C29_CommittedFilesAreUnique ==
    /\ \A a \in WithOutcome("Downloaded"), b \in WithOutcome("Downloaded") :
          a # b => CommittedDigest(a) # CommittedDigest(b)
    /\ \A k \in WithOutcome("Downloaded") :
          CommittedDigest(k) \notin startDigests

\* The final files the session created in the destination folder
FinalFilesCreated ==
    { q \in FinalPaths : fileOwner[q] # 0 /\ disk[q] # NoFile }

\* C32: when a download session returns normally (line 201), the number of
\* successes plus the number of skipped duplicates is at most the number of
\* candidates, the number of successes is the number of final files the
\* session created in the destination folder, and the number of skipped
\* duplicates is the number of provisional files it deleted as duplicates.
C32_ReturnedCountsMatchFiles ==
    ReturnedSummary =>
        /\ result[1] + result[3] <= result[2]
        /\ result[1] = Cardinality(FinalFilesCreated)
        /\ result[3] = Cardinality(dupRemoved)

\* C32 witness: a session with two candidates returned normally after it
\* committed the file of one and deleted the provisional file of the other
\* as a duplicate
C32_Witness ==
    /\ ReturnedSummary
    /\ result[1] = 1
    /\ result[3] = 1
    /\ result[2] = 2
    /\ Cardinality(FinalFilesCreated) = 1
    /\ Cardinality(dupRemoved) = 1

\* The events that tell why a candidate was not downloaded
\*                             (lines 138, 147, 155, 159, 174, 178, 198)
ReasonEvents ==
    {"File already exists", "Failed: HTTP", "Corrupted", "Empty file",
     "Duplicate found", "Error checking duplicate", "Error downloading"}

\* Candidate k has a reason event of its own after its 'Processing' event
\* and before the next 'Processing' event
ReportedInTurn(k) ==
    \E p \in DOMAIN msgs, q \in DOMAIN msgs :
        /\ p < q
        /\ msgs[p][1] = "Processing"
        /\ msgs[p][2] = k
        /\ msgs[q][1] \in ReasonEvents
        /\ msgs[q][2] = k
        /\ \A r \in (p + 1)..q : msgs[r][1] # "Processing"

\* C24 (as claimed): every candidate that does not end as Downloaded has a
\* progress event naming it and its reason, after its 'Processing' event and
\* before the next candidate's: as soon as its outcome is recorded, and for
\* every candidate of the page once the session has returned.
C24_EveryFailureIsReportedInItsTurn ==
    /\ \A k \in DOMAIN links :
          outcome[k] \notin {"none", "Downloaded"} => ReportedInTurn(k)
    /\ (pc = "done" /\ PageParsed) =>
          \A k \in DOMAIN links :
              outcome[k] # "Downloaded" => ReportedInTurn(k)

----------------------------------------------------------------------------
(* Properties of the progress channel *)

\* The lines of the output that came from session s, in output order
Delivered(s) == SelectSeq(text_output, LAMBDA e : e[1] = s)

\* In order, none lost, none duplicated: what was delivered, followed by
\* what waits in the queue, is what the worker put
InOrderExactlyOnce ==
    \A s \in Sessions : Delivered(s) \o msg_queue[s] = emitted[s]

\* A running worker is never made to wait by its queue
PutNeverBlocks ==
    \A s \in Sessions : worker[s] = "running" => ~PutBlocks(msg_queue[s])

\* Every event put is eventually in the output
EventuallyDelivered ==
    \A s \in Sessions : \A n \in 1..MaxEvents :
        (Len(emitted[s]) >= n) ~> (Len(Delivered(s)) >= n)

\* C19: every event a worker puts on its session queue is eventually
\* appended to the output by check_queue (the UI loop running); the events
\* of a session are appended in the order they were put, none lost, none
\* duplicated; and a put never blocks the worker, drained or not.
C19_EventsDeliveredInOrderWithoutBlocking ==
    /\ []InOrderExactlyOnce
    /\ []PutNeverBlocks
    /\ EventuallyDelivered

\* C19 witness: both sessions put all their events while nothing was
\* drained, then everything was delivered, the two sessions interleaved
C19_Witness ==
    /\ \A s \in Sessions : Len(Delivered(s)) = MaxEvents
    /\ Len(text_output) >= 3
    /\ text_output[1][1] # text_output[2][1]
    /\ text_output[2][1] # text_output[3][1]

\* A session whose terminal result has not been handled yet
Active(s) == worker[s] = "running" \/ terminal[s] = "posted"

\* The sessions whose worker thread is running
RunningWorkers == { s \in Sessions : worker[s] = "running" }

\* The worker threads a step starts
StartedByStep == { s \in Sessions : worker[s] = "none" /\ worker'[s] = "running" }

\* C25: from the start of a download session until download_complete
\* handled its result the download button is disabled; a run_download that
\* passed the validation starts exactly one worker thread and nothing else
\* starts one; no two download workers run at the same time; and every
\* session that started has download_complete called, which enables the
\* button again.
C25_ButtonDisabledUntilDownloadComplete ==
    /\ [](\A s \in Sessions : Active(s) => download_button = "disabled")
    /\ [](Cardinality(RunningWorkers) <= 1)
    /\ [][ /\ (download_button = "normal" /\ status_label' = <<"Downloading...", 0>>)
               => Cardinality(StartedByStep) = 1
           /\ StartedByStep # {}
               => (download_button = "normal" /\ status_label' = <<"Downloading...", 0>>)
         ]_vars
    /\ \A s \in Sessions :
          (worker[s] = "running")
              ~> (terminal[s] = "handled" /\ download_button = "normal")

\* C25 witness: two download sessions ran one after the other, the result
\* of the second was handled and the button is enabled again
C25_Witness ==
    /\ terminal[1] = "handled"
    /\ worker[2] = "returned"
    /\ terminal[2] = "handled"
    /\ download_button = "normal"
    /\ status_label = <<"Download complete", 2>>

\* C27 (as claimed): when the terminal result of a session is presented,
\* every progress event its worker put has been appended to the output.
C27_TerminalResultAfterAllEvents ==
    \A s \in Sessions :
        terminal[s] = "handled" => Delivered(s) = emitted[s]

----------------------------------------------------------------------------
(* Properties of the duplicate finder tab *)

\* C26 (as claimed): a run_check with both folders given disables the
\* 'Check Duplicates' button and starts exactly one worker thread; the
\* button is enabled again only when the result is shown and the status
\* line tells the number of processed files.
C26_CheckDisablesButtonAndStartsOneWorker ==
    checkRuns > 0 =>
        /\ checkThreads = checkRuns
        /\ check_button = "disabled" \/ status_label[1] = "Processed"

\* C28 (as claimed): once delete_file(path) was confirmed and the removal
\* succeeded, the file does not exist and no row of the result view names
\* the path, as its first or as its second element.
C28_NoRowNamesADeletedFile ==
    \A path \in deleted :
        /\ path \notin onDisk
        /\ path \notin Named(tree)

----------------------------------------------------------------------------
(* Properties of sessions *)

\* C23: each scan and each download session starts with an empty index,
\* and every entry of its index was put there by that session itself: an
\* entry of the scan's index is a file this scan visited with that
\* fingerprint, an entry of the download's index is an assignment this
\* download session made, whatever the other session and the sessions
\* before did.
C23_EachSessionOwnsItsIndex ==
    /\ (scanPc = "walk" /\ walkPos = 1) => fingerprints = EmptyDict
    /\ pc = "start" => existing_fingerprints = EmptyDict
    /\ \A d \in DOMAIN fingerprints :
          \E v \in DOMAIN visits :
              visits[v].ret = d /\ visits[v].path = fingerprints[d]
    /\ \A d \in DOMAIN existing_fingerprints :
          \E n \in DOMAIN indexLog :
              indexLog[n] = <<d, existing_fingerprints[d]>>

\* C23 witness: a second scan and a second download session run at the
\* same time; both indexes hold the same fingerprint, each mapped to the
\* session's own file
C23_Witness ==
    /\ scanRun = 2
    /\ dlRun = 2
    /\ scanPc = "walk"
    /\ pc = "fetch"
    /\ ContentDigest(<<97, 97>>) \in DOMAIN fingerprints
    /\ ContentDigest(<<97, 97>>) \in DOMAIN existing_fingerprints
    /\ fingerprints[ContentDigest(<<97, 97>>)] = LibOrder[1]
    /\ existing_fingerprints[ContentDigest(<<97, 97>>)] = JoinPath(ExOrder[1])

----------------------------------------------------------------------------
(* Properties of the player *)

\* C33 (as claimed): after any sequence of player operations
\* current_track_index is -1 or a valid index of current_playlist, and while
\* is_playing holds it designates the track that was started.
C33_IndexValidAndDesignatesStartedTrack ==
    /\ \/ current_track_index = -1
       \/ ValidIndex(current_playlist, current_track_index)
    /\ is_playing =>
          /\ ValidIndex(current_playlist, current_track_index)
          /\ TrackAt(current_playlist, current_track_index) = started


\* A step of the handler named op
StepOf(op) == lastStep'[1] = op

\* pause_track inverts is_paused, and runs only while is_playing
PauseToggles ==
    StepOf("pause_track") =>
        /\ is_playing
        /\ is_playing'
        /\ is_paused' = ~is_paused

\* is_paused changes to TRUE in pause_track only
PausedByPauseOnly ==
    (~is_paused /\ is_paused') => StepOf("pause_track")

\* A successful play_track leaves is_playing set and is_paused clear
PlaySetsFlags ==
    (lastStep'[2] # "none" /\ mixer' = "playing") =>
        (is_playing' /\ ~is_paused')

\* stop_track and clear_playlist leave both flags clear
StopClearsFlags ==
    (StepOf("stop_track") \/ StepOf("clear_playlist")) =>
        (~is_playing' /\ ~is_paused')

\* C34: is_paused implies is_playing in every reachable state; pause_track
\* toggles is_paused only while is_playing, play_track sets is_playing and
\* clears is_paused when it succeeds, stop_track and clear_playlist clear
\* both flags.
C34_PausedImpliesPlaying ==
    /\ [](is_paused => is_playing)
    /\ [][PauseToggles /\ PausedByPauseOnly /\ PlaySetsFlags
            /\ StopClearsFlags]_vars

\* A track is paused by pause_track
C34_Witness ==
    /\ is_paused
    /\ is_playing
    /\ mixer = "paused"
    /\ lastStep = <<"pause_track", "none">>


\* C35: at most one progress-update timer is pending at any time, whatever
\* the interleaving of the handlers and the timer; after stop_track none is
\* pending.
C35_AtMostOneProgressTimer ==
    /\ Cardinality(afterTimers) <= 1
    /\ lastStep[1] = "stop_track" => afterTimers = {}

\* A track was started over one that was playing: the timer of the first was
\* cancelled and the one of the second is pending
C35_Witness ==
    /\ lastStep[1] \in {"play_track", "next_track", "previous_track",
                        "check_music_end"}
    /\ lastStep[2] # "none"
    /\ is_playing
    /\ progress_update_id > 1
    /\ afterTimers = {progress_update_id}


\* The current track has ended while playing and not paused
TrackEnded == is_playing /\ ~is_paused /\ ~get_busy

\* The step calls play_track on track t: the file of t is the one it hands
\* to the mixer, and t is the track that plays when the mixer accepts it
Starts(t) ==
    /\ lastStep'[2] = t
    /\ mixer' = "playing" => (started' = t /\ is_playing' /\ ~is_paused')

\* The tick restarts the track that was playing
RestartsSameTrack ==
    /\ current_track_index' = current_track_index
    /\ Starts(started)

\* The tick starts the track that follows the current one, in a playlist
\* that has tracks
StartsFollowingTrack ==
    current_playlist # << >> =>
        /\ current_track_index' =
              (current_track_index + 1) % Len(current_playlist)
        /\ ValidIndex(current_playlist, current_track_index')
        /\ Starts(TrackAt(current_playlist, current_track_index'))

\* The tick leaves the index and the playback alone
TickDoesNothing ==
    /\ lastStep'[2] = "none"
    /\ UNCHANGED <<current_track_index, mixer, is_playing, is_paused,
                   started>>

\* What the claim says of a check_music_end tick
TickAsClaimed ==
    StepOf("check_music_end") =>
        IF TrackEnded
        THEN IF repeat_mode
             THEN RestartsSameTrack
             ELSE ~shuffle_mode => StartsFollowingTrack
        ELSE TickDoesNothing

\* C36 (as claimed): when the current track has ended while is_playing and
\* not is_paused, the next check_music_end tick restarts the same track if
\* repeat_mode is on, and otherwise starts the following track (index + 1
\* modulo the length of the playlist when shuffle is off); while paused or
\* stopped, check_music_end never changes current_track_index and never
\* starts playback.
C36_TickRestartsOrAdvances == [][TickAsClaimed]_vars

============================================================================
